---------------------------- MODULE Spec2Model ----------------------------
(***************************************************************************)
(* Model of intervals.cxx: the Interval value type, MergeIntervals and     *)
(* IsIntervalInUnionOfOthers.                                              *)
(*                                                                         *)
(* Interval::Integer is a fixed-width signed integer (long int).  The      *)
(* model keeps the two's-complement shape of the domain, MinInt ==         *)
(* -MaxInt - 1, on a small range.  The only arithmetic of the program is   *)
(* lastInterval.Max() + 1 in MergeIntervals; when Max() is the largest     *)
(* value of the type that addition is a signed overflow, which is          *)
(* undefined behaviour.  The variable build names what the compiled        *)
(* program does there: "wrap" (two's-complement wraparound, the plain      *)
(* add instruction), "exact" (the comparison is evaluated as if the sum    *)
(* did not overflow, which an optimiser may assume) or "trap" (the         *)
(* program is aborted, as with -ftrapv or a sanitizer).                    *)
(*                                                                         *)
(* Three specifications share the module, one per entry point:             *)
(*   SpecInterval  - an Interval object under its constructor and SetMax   *)
(*   SpecMerge     - MergeIntervals on a sorted non-empty vector, and      *)
(*                   MergeIntervals applied again to what it returned      *)
(*   SpecContains  - IsIntervalInUnionOfOthers on any interval and vector  *)
(***************************************************************************)
EXTENDS Integers, Sequences, FiniteSets, TLC

VARIABLES build,      \* behaviour of the overflowing Max() + 1 in this build
          pc,         \* position of the driver
          obj,        \* SpecInterval: the Interval object
          prev,       \* SpecInterval: the object before the last call
          op,         \* SpecInterval: the last member called
          args,       \* SpecInterval: the arguments of the last call
          ctorArgs,   \* SpecInterval: the arguments obj was constructed from
          thrown,     \* SpecInterval: the last call threw std::invalid_argument
          intervals,  \* SpecMerge: the argument of MergeIntervals
          merged,     \* SpecMerge: outcome of MergeIntervals(intervals)
          remerged,   \* SpecMerge: outcome of MergeIntervals on merged.output
          interval,   \* SpecContains: the interval under test
          others,     \* SpecContains: the collection of intervals
          ret         \* SpecContains: outcome of IsIntervalInUnionOfOthers

vars == <<build, pc, obj, prev, op, args, ctorArgs, thrown, intervals, merged,
          remerged, interval, others, ret>>

(***************************************************************************)
(* Bounds of the model.                                                    *)
(***************************************************************************)
MaxInt == 1
MaxLen == 3
MaxOthers == 2

MinInt == -MaxInt - 1
Integer == MinInt..MaxInt

Builds == {"wrap", "exact", "trap"}

None == [status |-> "none"]

(***************************************************************************)
(* class Interval                                                          *)
(***************************************************************************)
\* The constructor without the swap of reversed bounds.
IntervalNoSwap(min, max) == [min |-> min, max |-> max]

\* Interval(Integer min, Integer max)
Interval(min, max) ==
    IF max < min THEN [min |-> max, max |-> min]
                 ELSE [min |-> min, max |-> max]

Min(self) == self.min

Max(self) == self.max

\* SetMax with the comparison inverted.
SetMaxInverted(self, max) ==
    IF max <= Min(self)
    THEN [thrown |-> FALSE, self |-> [self EXCEPT !.max = max]]
    ELSE [thrown |-> TRUE, self |-> self]

\* SetMax with a strict comparison, rejecting the degenerate interval.
SetMaxStrict(self, max) ==
    IF max > Min(self)
    THEN [thrown |-> FALSE, self |-> [self EXCEPT !.max = max]]
    ELSE [thrown |-> TRUE, self |-> self]

\* void SetMax(Integer max): the object after the call, and whether it threw.
SetMax(self, max) ==
    IF max >= Min(self)
    THEN [thrown |-> FALSE, self |-> [self EXCEPT !.max = max]]
    ELSE [thrown |-> TRUE, self |-> self]

\* bool operator < (const Interval &other) const
Less(self, other) == Min(self) < Min(other)

\* bool operator == (const Interval& lhs, const Interval& rhs)
Eq(lhs, rhs) == Min(lhs) = Min(rhs) /\ Max(lhs) = Max(rhs)

\* Every value an Interval object can be constructed to.
Intervals == {Interval(a, b) : a \in Integer, b \in Integer}

(***************************************************************************)
(* std::vector<Interval> helpers                                           *)
(***************************************************************************)
Vectors(n) == UNION {[1..k -> Intervals] : k \in 0..n}

\* operator == of std::vector: same size and element-wise operator ==.
VecEq(a, b) ==
    /\ Len(a) = Len(b)
    /\ \A i \in 1..Len(a) : Eq(a[i], b[i])

PermsOf(v) ==
    {[i \in 1..Len(v) |-> v[p[i]]] : p \in Permutations(1..Len(v))}

IsSorted(v) == \A i \in 1..(Len(v) - 1) : ~Less(v[i + 1], v[i])

\* std::sort under operator <: some permutation in ascending order of min;
\* the relative order of elements with equal min is unspecified.
StdSort(v) == {p \in PermsOf(v) : IsSorted(p)}

\* std::lower_bound: binary search for the first element not less than x.
RECURSIVE LowerBoundFrom(_, _, _, _)
LowerBoundFrom(v, x, first, len) ==
    IF len <= 0 THEN first
    ELSE LET half == len \div 2
             mid  == first + half
         IN IF Less(v[mid], x)
            THEN LowerBoundFrom(v, x, mid + 1, len - half - 1)
            ELSE LowerBoundFrom(v, x, first, half)

LowerBound(v, x) == LowerBoundFrom(v, x, 1, Len(v))

\* std::vector::insert(pos, x)
Insert(v, pos, x) == SubSeq(v, 1, pos - 1) \o <<x>> \o SubSeq(v, pos, Len(v))

(***************************************************************************)
(* MergeIntervals                                                          *)
(***************************************************************************)
\* lastInterval.Max() + 1 overflows.
Overflows(last) == Max(last) = MaxInt

\* lastInterval.Max() + 1 as the build computes it (not reached under "trap"
\* when it overflows).
MaxPlusOne(last) ==
    IF ~Overflows(last) THEN Max(last) + 1
    ELSE IF build = "wrap" THEN MinInt
    ELSE MaxInt + 1

\* The adjacency test with the comparison reversed.
StartsNewRunReversed(last, cur) == MaxPlusOne(last) > Min(cur)

\* if (lastInterval.Max() + 1 < intervals[i].Min())
StartsNewRun(last, cur) == MaxPlusOne(last) < Min(cur)

\* The extension test with the comparison reversed.
ExtendsReversed(last, cur) == Max(cur) < Max(last)

\* else if (lastInterval.Max() < intervals[i].Max())
Extends(last, cur) == Max(last) < Max(cur)

\* The loop of MergeIntervals from index i on, with the output built so far.
RECURSIVE MergeLoop(_, _, _)
MergeLoop(v, i, output) ==
    IF i > Len(v) THEN [status |-> "ok", output |-> output]
    ELSE LET last == output[Len(output)]
             cur  == v[i]
         IN IF Overflows(last) /\ build = "trap"
            THEN [status |-> "trap", output |-> output]
            ELSE IF StartsNewRun(last, cur)
            THEN MergeLoop(v, i + 1, Append(output, cur))
            ELSE IF Extends(last, cur)
            THEN LET r == SetMax(last, Max(cur))
                 IN IF r.thrown
                    THEN [status |-> "invalid_argument", output |-> output]
                    ELSE MergeLoop(v, i + 1,
                                   [output EXCEPT ![Len(output)] = r.self])
            ELSE MergeLoop(v, i + 1, output)

\* std::vector<Interval> MergeIntervals(std::vector<Interval> &intervals),
\* for a non-empty vector: the vector returned, or how the call ended.
MergeIntervals(v) == MergeLoop(v, 2, <<v[1]>>)

(***************************************************************************)
(* IsIntervalInUnionOfOthers                                               *)
(***************************************************************************)
\* The body after std::sort has put the copy in the order sortedCopy.
IsIntervalInUnionOfOthers(test, sortedCopy) ==
    IF Len(sortedCopy) = 0
    THEN [status |-> "ok", result |-> FALSE, sorted |-> sortedCopy,
          intervalsCopy |-> <<>>, allIntervals |-> <<>>, mergedAll |-> <<>>]
    ELSE LET m1  == MergeIntervals(sortedCopy)
             all == Insert(m1.output, LowerBound(m1.output, test), test)
             m2  == MergeIntervals(all)
         IN IF m1.status # "ok"
            THEN [status |-> m1.status, result |-> FALSE, sorted |-> sortedCopy,
                  intervalsCopy |-> <<>>, allIntervals |-> <<>>,
                  mergedAll |-> <<>>]
            ELSE IF m2.status # "ok"
            THEN [status |-> m2.status, result |-> FALSE, sorted |-> sortedCopy,
                  intervalsCopy |-> m1.output, allIntervals |-> all,
                  mergedAll |-> <<>>]
            ELSE [status |-> "ok", result |-> VecEq(m2.output, m1.output),
                  sorted |-> sortedCopy, intervalsCopy |-> m1.output,
                  allIntervals |-> all, mergedAll |-> m2.output]

(***************************************************************************)
(* SpecInterval: one Interval object.                                      *)
(***************************************************************************)
InitInterval ==
    /\ build \in Builds
    /\ pc = "object"
    /\ \E a \in Integer, b \in Integer :
          /\ obj = Interval(a, b)
          /\ args = <<a, b>>
          /\ ctorArgs = <<a, b>>
    /\ prev = None
    /\ op = "Interval"
    /\ thrown = FALSE
    /\ intervals = <<>> /\ merged = None /\ remerged = None
    /\ interval = None /\ others = <<>> /\ ret = None

Construct ==
    /\ pc = "object"
    /\ \E a \in Integer, b \in Integer :
          /\ obj' = Interval(a, b)
          /\ args' = <<a, b>>
          /\ ctorArgs' = <<a, b>>
    /\ prev' = None
    /\ op' = "Interval"
    /\ thrown' = FALSE
    /\ UNCHANGED <<build, pc, intervals, merged, remerged, interval, others,
                   ret>>

CallSetMax ==
    /\ pc = "object"
    /\ \E max \in Integer :
          LET r == SetMax(obj, max)
          IN /\ obj' = r.self
             /\ thrown' = r.thrown
             /\ args' = <<max>>
    /\ prev' = obj
    /\ op' = "SetMax"
    /\ UNCHANGED <<build, pc, ctorArgs, intervals, merged, remerged, interval,
                   others, ret>>

NextInterval == Construct \/ CallSetMax

SpecInterval == InitInterval /\ [][NextInterval]_vars

(***************************************************************************)
(* SpecMerge: MergeIntervals on a non-empty vector sorted by min.          *)
(***************************************************************************)
SortedInputs == {v \in Vectors(MaxLen) : Len(v) > 0 /\ IsSorted(v)}

InitMerge ==
    /\ build \in Builds
    /\ pc = "start"
    /\ intervals \in SortedInputs
    /\ merged = None /\ remerged = None
    /\ obj = None /\ prev = None /\ op = "none" /\ thrown = FALSE
    /\ args = <<>> /\ ctorArgs = <<>>
    /\ interval = None /\ others = <<>> /\ ret = None

CallMerge ==
    /\ pc = "start"
    /\ merged' = MergeIntervals(intervals)
    /\ pc' = "merged"
    /\ UNCHANGED <<build, obj, prev, op, args, ctorArgs, thrown, intervals,
                   remerged, interval, others, ret>>

CallMergeAgain ==
    /\ pc = "merged"
    /\ merged.status = "ok"
    /\ remerged' = MergeIntervals(merged.output)
    /\ pc' = "remerged"
    /\ UNCHANGED <<build, obj, prev, op, args, ctorArgs, thrown, intervals,
                   merged, interval, others, ret>>

NextMerge == CallMerge \/ CallMergeAgain

SpecMerge == InitMerge /\ [][NextMerge]_vars

(***************************************************************************)
(* SpecContains: IsIntervalInUnionOfOthers on any interval and vector.     *)
(***************************************************************************)
InitContains ==
    /\ build \in Builds
    /\ pc = "start"
    /\ interval \in Intervals
    /\ others \in Vectors(MaxOthers)
    /\ ret = None
    /\ obj = None /\ prev = None /\ op = "none" /\ thrown = FALSE
    /\ args = <<>> /\ ctorArgs = <<>>
    /\ intervals = <<>> /\ merged = None /\ remerged = None

CallIsIntervalInUnionOfOthers ==
    /\ pc = "start"
    /\ \E sortedCopy \in StdSort(others) :
          ret' = IsIntervalInUnionOfOthers(interval, sortedCopy)
    /\ pc' = "done"
    /\ UNCHANGED <<build, obj, prev, op, args, ctorArgs, thrown, intervals,
                   merged, remerged, interval, others>>

NextContains == CallIsIntervalInUnionOfOthers

SpecContains == InitContains /\ [][NextContains]_vars

(***************************************************************************)
(* Reference notions the properties are stated with, over the unbounded    *)
(* integers.                                                               *)
(***************************************************************************)
\* The integers of the closed range an interval stands for.
Points(iv) == {p \in Integer : iv.min <= p /\ p <= iv.max}

\* The integers covered by the union of the intervals of v.
Covered(v) == UNION {Points(v[i]) : i \in 1..Len(v)}

\* Ascending by min, consecutive entries separated by a gap: no two entries
\* overlap or are adjacent.
Separated(v) ==
    /\ \A i \in 1..(Len(v) - 1) : v[i].min <= v[i + 1].min
    /\ \A i \in 1..(Len(v) - 1) : v[i + 1].min > v[i].max + 1

\* The merge of the design (section 4.2 of the specification) over unbounded
\* integers: L.max + 1 is the mathematical successor.
RECURSIVE UnboundedMerge(_, _, _)
UnboundedMerge(v, i, output) ==
    IF i > Len(v) THEN output
    ELSE LET last == output[Len(output)]
             cur  == v[i]
         IN IF cur.min > last.max + 1
            THEN UnboundedMerge(v, i + 1, Append(output, cur))
            ELSE IF cur.max > last.max
            THEN UnboundedMerge(v, i + 1,
                     [output EXCEPT ![Len(output)] =
                         [min |-> last.min, max |-> cur.max]])
            ELSE UnboundedMerge(v, i + 1, output)

Smaller(a, b) == IF a < b THEN a ELSE b

Larger(a, b) == IF a < b THEN b ELSE a

(***************************************************************************)
(* Properties, SpecContains                                                *)
(***************************************************************************)
\* C1: whenever IsIntervalInUnionOfOthers returns, it returns true if and
\* only if every integer of the test interval lies in some interval of the
\* collection (false in particular for the empty collection).
C1_TrueIffCovered ==
    (pc = "done" /\ ret.status = "ok")
        => (ret.result <=> /\ others # <<>>
                           /\ Points(interval) \subseteq Covered(others))

\* C4: IsIntervalInUnionOfOthers(T, [T]) returns true for every interval T,
\* also when T.max is the largest value of the integer type.
C4_ContainsItself ==
    (pc = "done" /\ others = <<interval>>)
        => (ret.status = "ok" /\ ret.result)

\* C6: the value IsIntervalInUnionOfOthers returns for a collection is the
\* value it returns for every permutation of that collection, whatever order
\* std::sort leaves intervals of equal min in.
C6_PermutationInvariant ==
    (pc = "done" /\ ret.status = "ok")
        => \A p \in PermsOf(others) : \A s \in StdSort(p) :
              LET r == IsIntervalInUnionOfOthers(interval, s)
              IN r.status = "ok" => r.result = ret.result

\* C10: SetMax never throws inside IsIntervalInUnionOfOthers: neither the
\* merge of the sorted collection nor the merge with the test interval
\* inserted ends with std::invalid_argument.
C10_SetMaxNeverThrows == pc = "done" => ret.status # "invalid_argument"

\* C10 witness: a call that returned after both of its merges extended the
\* last output interval through SetMax.
C10_Witness ==
    /\ pc = "done"
    /\ ret.status = "ok"
    /\ Len(ret.sorted) = 2
    /\ Len(ret.intervalsCopy) = 1
    /\ ret.intervalsCopy[1].max > ret.sorted[1].max
    /\ Len(ret.mergedAll) = 1
    /\ ret.mergedAll[1].max > ret.allIntervals[1].max

(***************************************************************************)
(* Properties, SpecMerge                                                   *)
(***************************************************************************)
\* C2: the vector MergeIntervals returns for a non-empty input sorted by min
\* is sorted by min and any two consecutive entries A, B of it satisfy
\* B.min > A.max + 1.
C2_OutputSeparated ==
    (pc # "start" /\ merged.status = "ok") => Separated(merged.output)

\* C3: the set of integers covered by the vector MergeIntervals returns is
\* the set of integers covered by its input.
C3_UnionPreserved ==
    (pc # "start" /\ merged.status = "ok")
        => Covered(merged.output) = Covered(intervals)

\* C3 witness: a merge that returned fewer intervals than it was given,
\* after raising the max of the first one.
C3_Witness ==
    /\ pc = "merged"
    /\ merged.status = "ok"
    /\ Len(intervals) = 3
    /\ Len(merged.output) = 2
    /\ merged.output[1].max > intervals[1].max

\* C5: MergeIntervals returns, and returns what the merge over unbounded
\* integers returns: the wraparound of Max() + 1 has no effect.
C5_NoWraparoundEffect ==
    pc # "start"
        => /\ merged.status = "ok"
           /\ merged.output = UnboundedMerge(intervals, 2, <<intervals[1]>>)

\* C7: MergeIntervals returns a sorted, separated input unchanged (a single
\* interval in particular), and applied to a vector it returned it returns
\* that vector again.
C7_Idempotent ==
    /\ (pc # "start" /\ Separated(intervals))
          => (merged.status = "ok" /\ VecEq(merged.output, intervals))
    /\ pc = "remerged"
          => (remerged.status = "ok" /\ VecEq(remerged.output, merged.output))

\* C7 witness: a separated input of two intervals merged, and the result
\* merged again.
C7_Witness ==
    /\ pc = "remerged"
    /\ Len(intervals) = 2
    /\ Separated(intervals)
    /\ Len(remerged.output) = 2

(***************************************************************************)
(* Properties, SpecInterval                                                *)
(***************************************************************************)
\* C8: an Interval always has Min() <= Max(); its min is the smaller of the
\* two constructor arguments, through every SetMax call, and right after
\* construction its max is the larger.
C8_MinLeMax ==
    /\ Min(obj) <= Max(obj)
    /\ Min(obj) = Smaller(ctorArgs[1], ctorArgs[2])
    /\ op = "Interval" => Max(obj) = Larger(ctorArgs[1], ctorArgs[2])

\* C8 witness: an object constructed from reversed bounds on which the last
\* SetMax call failed.
C8_Witness ==
    /\ op = "SetMax"
    /\ thrown
    /\ ctorArgs[1] > ctorArgs[2]

\* C9: SetMax(newMax) throws exactly when newMax < Min() and then changes
\* nothing; otherwise Max() becomes newMax and Min() stays.
C9_SetMaxContract ==
    op = "SetMax"
        => /\ thrown <=> args[1] < Min(prev)
           /\ thrown => obj = prev
           /\ ~thrown => (Max(obj) = args[1] /\ Min(obj) = Min(prev))

\* C9 witness: SetMax(Min()) accepted on a non-degenerate interval, which
\* becomes degenerate.
C9_Witness ==
    /\ op = "SetMax"
    /\ ~thrown
    /\ args[1] = Min(prev)
    /\ Max(prev) > Min(prev)

=============================================================================
